---- MODULE Spec2Model ----
(***************************************************************************)
(* ThreeCardImageFader: three cards, each with two image layers (a, b) and *)
(* a flag (showA) naming the visible one.  A configuration load replaces   *)
(* the image pool and the timing, the card initializer effect gives every  *)
(* card one image of the pool, and an interval timer crossfades one random *)
(* card per tick to an image chosen by pickRandomNotIn /                   *)
(* pickRandomExcluding.                                                    *)
(*                                                                         *)
(* Image identifiers are the numbers 1..MaxPoolLen (the code only compares *)
(* them with ===); Null is the empty layer.  Math.random is a              *)
(* nondeterministic choice.                                                *)
(*                                                                         *)
(* Spec: a load is one step, the handler's three setState calls being one *)
(* commit and the effects of that commit (cleanup of the old timer, card   *)
(* initializer, new timer) running with it.  React runs them before it     *)
(* renders any later update, and the initializer's updater does not read   *)
(* the old cards.  A tick is one step, except inside the while loop of     *)
(* pickRandomExcluding, where every draw is a step and nothing else runs.  *)
(*                                                                         *)
(* LifeSpec: the commit and its effects are two steps, between which the   *)
(* old timer can fire, and the component can be removed.                   *)
(*                                                                         *)
(* NormSpec: loads only, over a wide range of decoded configurations and   *)
(* two pairs of default props.                                             *)
(*                                                                         *)
(* RotateSpec: one load, then ticks for ever, every card being targeted    *)
(* again and again.                                                        *)
(*                                                                         *)
(* FetchSpec: the fetches of the config loader effect in flight, each with *)
(* the isMounted flag and the default props of the run that issued it.     *)
(***************************************************************************)
EXTENDS Integers, Sequences, FiniteSets

\* ------------------------------------------------------------------ bounds

\* Longest image pool of the first configuration that is applied.
MaxPoolLen == 4

\* Longest image pool of a legacy array that replaces an applied
\* configuration.
MaxReloadLen == 2

\* Longest image pool of a keyed configuration.
MaxKeyedLen == 1

\* The number of fetches FetchSpec issues: the mount and two changes of
\* configSource or of a default prop.
MaxLoads == 3

\* ------------------------------------------------------- program constants

\* The props defaultIntervalMs and defaultFadeMs at their default values.
defaultIntervalMs == 5000

defaultFadeMs == 3000

\* The number of cards.
NumCards == 3

\* null: a layer without an image.
Null == 0

Slots == 0 .. (NumCards - 1)

Ids == 1 .. MaxPoolLen

\* ------------------------------------------------------------------ inputs

Count(p, x) == Cardinality({ i \in 1 .. Len(p) : p[i] = x })

\* The code compares identifiers only with === and reads the pool only by
\* its length and at a random index, so a pool is given up to renaming and
\* reordering: equal entries are adjacent, the identifiers are 1, 2, ... in
\* the order they first occur, and none occurs more often than the one
\* before it.  Duplicate entries are kept.
IsCanonical(p) ==
    /\ \A i \in 1 .. Len(p) : p[i] <= (IF i = 1 THEN 0 ELSE p[i - 1]) + 1
    /\ \A i \in 2 .. Len(p) : p[i - 1] <= p[i]
    /\ \A x \in Ids : x > 1 => Count(p, x) <= Count(p, x - 1)

PoolsUpTo(n) ==
    { p \in UNION { [1 .. k -> Ids] : k \in 0 .. n } : IsCanonical(p) }

\* A decoded JSON value: undefined (the key is absent), null, a number, a
\* string, or an array of image identifiers.
Absent == [t |-> "undefined", v |-> 0, s |-> "", items |-> <<>>]

JNull == [t |-> "null", v |-> 0, s |-> "", items |-> <<>>]

Num(n) == [t |-> "number", v |-> n, s |-> "", items |-> <<>>]

Str(x) == [t |-> "string", v |-> 0, s |-> x, items |-> <<>>]

Arr(p) == [t |-> "array", v |-> 0, s |-> "", items |-> p]

\* The timing a keyed configuration of Spec carries under INTERVAL_MS and
\* FADE_MS: none, both valid, an invalid interval.
TimingPairs ==
    { << Absent, Absent >>, << Num(7000), Num(4000) >>, << Num(0), Absent >> }

\* A decoded configuration: a legacy array, a keyed object with its five
\* recognized keys, or something else (null, a primitive).
ArrayDoc(p) ==
    [kind |-> "array", items |-> p, images |-> Absent, INTERVAL_MS |-> Absent,
     intervalMs |-> Absent, FADE_MS |-> Absent, fadeMs |-> Absent]

KeyedDoc(imgs, iUpper, iCamel, fUpper, fCamel) ==
    [kind |-> "object", items |-> <<>>, images |-> imgs, INTERVAL_MS |-> iUpper,
     intervalMs |-> iCamel, FADE_MS |-> fUpper, fadeMs |-> fCamel]

OtherDoc == [ArrayDoc(<<>>) EXCEPT !.kind = "other"]

KeyedDocs ==
    { KeyedDoc(imgs, t[1], Absent, t[2], Absent) :
        imgs \in { Arr(q) : q \in PoolsUpTo(MaxKeyedLen) } \cup { Absent, Str("a.png") },
        t \in TimingPairs }

\* The decoded configurations the first load can deliver.
Documents ==
    { ArrayDoc(p) : p \in PoolsUpTo(MaxPoolLen) } \cup KeyedDocs \cup { OtherDoc }

\* The decoded configurations a later load can deliver.  A load of a
\* non-empty pool overwrites the pool, the timing, every card and the
\* timer, so the states a long pool leads to do not depend on the state it
\* is loaded in: only the first load carries the long pools.
ReloadDocuments ==
    { ArrayDoc(p) : p \in PoolsUpTo(MaxReloadLen) } \cup KeyedDocs \cup { OtherDoc }

\* -------------------------------------------------------------- variables

VARIABLES
    images,       \* useState: the image pool
    intervalMs,   \* useState: time between transitions
    fadeMs,       \* useState: duration of the crossfade
    cards,        \* useState: the three cards [a, b, showA]
    timerRef,     \* the live interval timer and what its callback closed over
    pc,           \* where the timer callback is: "idle", or "loop" inside
                  \* pickRandomExcluding's while loop
    loopTarget,   \* the card of the tick that is inside the loop
    initialized,  \* the card initializer has run at least once
    last,         \* history: the last completed operation
    mounted,      \* the component is mounted
    fxPending,    \* a commit whose effects (useEffect) have not run yet
    props,        \* the props defaultIntervalMs and defaultFadeMs
    doc,          \* history: the decoded configuration of the last load and
                  \* the timing it replaced
    orphans,      \* live timers that timerRef.current does not refer to
    loads         \* the fetches in flight, with the isMounted flag and the
                  \* default props of the effect run that issued them, and
                  \* history: the loads requested and completed

vars == << images, intervalMs, fadeMs, cards, timerRef, pc, loopTarget,
           initialized, last, mounted, fxPending, props, doc, orphans,
           loads >>

\* What a tick leaves alone besides the pool, the timing and the timer.
env == << mounted, fxPending, props, doc, orphans, loads >>

NoTimer == [live |-> FALSE, images |-> <<>>, intervalMs |-> 0]

NoOp == [op |-> "none", target |-> 0, branch |-> "none", change |-> "none"]

DefaultProps ==
    [defaultIntervalMs |-> defaultIntervalMs, defaultFadeMs |-> defaultFadeMs]

\* No fetch is followed.
NoLoads ==
    [inflight |-> {}, requested |-> 0, writer |-> 0,
     done |-> [seq |-> 0, current |-> TRUE, failed |-> FALSE]]

\* No configuration has been decoded.
NoDoc ==
    [cfg |-> [kind |-> "none"],
     was |-> [intervalMs |-> defaultIntervalMs, fadeMs |-> defaultFadeMs]]

Init ==
    /\ images = <<>>
    /\ intervalMs = defaultIntervalMs
    /\ fadeMs = defaultFadeMs
    /\ cards = [s \in Slots |-> [a |-> Null, b |-> Null, showA |-> TRUE]]
    /\ timerRef = NoTimer
    /\ pc = "idle"
    /\ loopTarget = 0
    /\ initialized = FALSE
    /\ last = NoOp
    /\ mounted = TRUE
    /\ fxPending = FALSE
    /\ props = DefaultProps
    /\ doc = NoDoc
    /\ orphans = {}
    /\ loads = NoLoads

\* ------------------------------------------------ configuration (loader)

NaN == [finite |-> FALSE, v |-> 0]

\* Number(x) of a decoded JSON value.
ToNumber(x) ==
    CASE x.t = "number" -> [finite |-> TRUE, v |-> x.v]
      [] x.t = "null" -> [finite |-> TRUE, v |-> 0]
      [] x.t = "string" ->
            IF x.s = "" THEN [finite |-> TRUE, v |-> 0]
            ELSE IF x.s = "7000" THEN [finite |-> TRUE, v |-> 7000]
            ELSE NaN
      [] OTHER -> NaN

\* Array.isArray(x)
IsArray(x) == x.t = "array"

\* Mutant: x || y, which also passes over 0 and "".
CoalesceOr(x, y) ==
    IF x.t \in {"undefined", "null"} \/ (x.t = "number" /\ x.v = 0)
          \/ (x.t = "string" /\ x.s = "")
    THEN y ELSE x

\* x ?? y
Coalesce(x, y) == IF x.t \in {"undefined", "null"} THEN y ELSE x

\* Mutant: every finite number is taken.
PositiveOrFinite(n, fallback) == IF n.finite THEN n.v ELSE fallback

\* Number.isFinite(n) && n > 0 ? n : fallback
PositiveOr(n, fallback) == IF n.finite /\ n.v > 0 THEN n.v ELSE fallback

\* Mutant: a legacy array leaves the timing as it is.
NormalizeKeepTiming(data, dInterval, dFade) ==
    CASE data.kind = "array" ->
            [images |-> data.items, intervalMs |-> intervalMs, fadeMs |-> fadeMs]
      [] data.kind = "object" ->
            [images |-> IF IsArray(data.images) THEN data.images.items ELSE <<>>,
             intervalMs |->
                PositiveOr(ToNumber(Coalesce(data.INTERVAL_MS, data.intervalMs)),
                           dInterval),
             fadeMs |->
                PositiveOr(ToNumber(Coalesce(data.FADE_MS, data.fadeMs)), dFade)]
      [] OTHER ->
            [images |-> <<>>, intervalMs |-> dInterval, fadeMs |-> dFade]

\* Mutant: what is neither an array nor an object leaves the state as it
\* is (the handler returns).
NormalizeIgnoreOther(data, dInterval, dFade) ==
    CASE data.kind = "array" ->
            [images |-> data.items, intervalMs |-> dInterval, fadeMs |-> dFade]
      [] data.kind = "object" ->
            [images |-> IF IsArray(data.images) THEN data.images.items ELSE <<>>,
             intervalMs |->
                PositiveOr(ToNumber(Coalesce(data.INTERVAL_MS, data.intervalMs)),
                           dInterval),
             fadeMs |->
                PositiveOr(ToNumber(Coalesce(data.FADE_MS, data.fadeMs)), dFade)]
      [] OTHER ->
            [images |-> images, intervalMs |-> intervalMs, fadeMs |-> fadeMs]

\* The then-handler's three branches: what it hands to setImages,
\* setIntervalMs and setFadeMs.
Normalize(data, dInterval, dFade) ==
    CASE data.kind = "array" ->
            [images |-> data.items, intervalMs |-> dInterval, fadeMs |-> dFade]
      [] data.kind = "object" ->
            [images |-> IF IsArray(data.images) THEN data.images.items ELSE <<>>,
             intervalMs |->
                PositiveOr(ToNumber(Coalesce(data.INTERVAL_MS, data.intervalMs)),
                           dInterval),
             fadeMs |->
                PositiveOr(ToNumber(Coalesce(data.FADE_MS, data.fadeMs)), dFade)]
      [] OTHER ->
            [images |-> <<>>, intervalMs |-> dInterval, fadeMs |-> dFade]

\* The catch-handler: reset to defaults.
OnFetchError(dInterval, dFade) ==
    [images |-> <<>>, intervalMs |-> dInterval, fadeMs |-> dFade]

\* ------------------------------------------------------------- selection

\* Boolean(x): identifiers are non-empty strings, so only null is falsy.
Truthy(x) == x # Null

\* list[i] of a JavaScript array: undefined outside the array.
At(list, i) == IF i \in 1 .. Len(list) THEN list[i] ELSE Null

Elems(list) == { list[i] : i \in 1 .. Len(list) }

\* c.showA ? c.a : c.b
VisibleOf(c) == IF c.showA THEN c.a ELSE c.b

\* The layer that is not shown.
HiddenOf(c) == IF c.showA THEN c.b ELSE c.a

\* Mutant: only the first card's image counts as visible.
VisibleSetFirst(prev) == { x \in { VisibleOf(prev[0]) } : Truthy(x) }

\* new Set(prev.map((c) => (c.showA ? c.a : c.b)).filter(Boolean))
VisibleSet(prev) == { x \in { VisibleOf(prev[s]) : s \in Slots } : Truthy(x) }

\* Mutant: any identifier that is not excluded, in the list or not.
CandidatesOutside(list, excludeSet) ==
    { x \in Ids : x \notin excludeSet }

\* Mutant: the filter is inverted.
CandidatesVisible(list, excludeSet) ==
    { x \in Elems(list) : x \in excludeSet }

\* Mutant: the exclusion set is ignored.
CandidatesAny(list, excludeSet) == Elems(list)

\* pickRandomNotIn: the values list.filter((x) => !excludeSet.has(x)) holds,
\* one of which is returned; null when there is none.
Candidates(list, excludeSet) == { x \in Elems(list) : x \notin excludeSet }

\* Mutant: the loop ends after its first draw.
LoopNever(candidate, exclude) == FALSE

\* pickRandomExcluding: the condition of its while loop.
LoopContinues(candidate, exclude) == candidate = exclude

\* if (!newImg) newImg = currentVisible
OrCurrent(newImg, currentVisible) ==
    IF Truthy(newImg) THEN newImg ELSE currentVisible

\* Mutant: the new image goes to the hidden layer, and the flag stays.
WriteCardNoFlip(currentCard, newImg) ==
    IF currentCard.showA
    THEN [currentCard EXCEPT !.b = newImg]
    ELSE [currentCard EXCEPT !.a = newImg]

\* Mutant: the new image goes to the visible layer.
WriteCardVisible(currentCard, newImg) ==
    IF currentCard.showA
    THEN [currentCard EXCEPT !.a = newImg, !.showA = FALSE]
    ELSE [currentCard EXCEPT !.b = newImg, !.showA = TRUE]

\* The updated card: the new image goes to the hidden layer, then the flag
\* flips.
WriteCard(currentCard, newImg) ==
    IF currentCard.showA
    THEN [currentCard EXCEPT !.b = newImg, !.showA = FALSE]
    ELSE [currentCard EXCEPT !.a = newImg, !.showA = TRUE]

\* Mutant: every card is given the updated card.
ApplyTickAll(prev, target, newImg) ==
    [s \in Slots |-> WriteCard(prev[target], newImg)]

\* next = [...prev]; next[target] = updated
ApplyTick(prev, target, newImg) ==
    [prev EXCEPT ![target] = WriteCard(prev[target], newImg)]

\* ------------------------------------------------------------- effects

\* Mutant: the image goes to layer b only, and layer a is shown.
InitCardHidden(initial) == [a |-> Null, b |-> initial, showA |-> TRUE]

\* { a: initial, b: initial, showA: true }
InitCard(initial) == [a |-> initial, b |-> initial, showA |-> TRUE]

\* Mutant: Math.round, which also yields images.length.
InitIndicesRound(list) == 1 .. (Len(list) + 1)

\* The indices Math.floor(Math.random() * images.length) can yield.
InitIndices(list) == 1 .. Len(list)

\* Mutant: the cards are initialized when the content of the pool changes.
InitEffectOnChange(imgs) == Len(imgs) # 0 /\ imgs # images

\* Mutant: the cards are initialized once only.
InitEffectOnce(imgs) == Len(imgs) # 0 /\ ~initialized

\* The guard of the card initializer effect.
InitEffectRuns(imgs) == Len(imgs) # 0

\* The guard of the transition loop effect.
TimerEffectRuns(imgs) == Len(imgs) # 0

\* Mutant: the cleanup leaves the timer alone.
ClearedNever(t) == t

\* Mutant: clearing when no timer is live fails.
ClearedStrict(t) ==
    IF t.live THEN NoTimer
    ELSE [live |-> FALSE, images |-> <<>>, intervalMs |-> -1]

\* if (timerRef.current) clearInterval(timerRef.current): the timer after
\* it.  The handle of a cleared timer stays in timerRef.current, and
\* clearInterval of such a handle does nothing.
Cleared(t) == IF t.live THEN NoTimer ELSE t

\* The timer that is still live when timerRef.current is overwritten.
Leftover(t) == IF t.live THEN {t} ELSE {}

\* Mutant: the timer is started with the default interval.
StartTimerDefault(imgs, interval) ==
    [live |-> TRUE, images |-> imgs, intervalMs |-> defaultIntervalMs]

\* setInterval(callback, intervalMs): the callback closes over images.
StartTimer(imgs, interval) ==
    [live |-> TRUE, images |-> imgs, intervalMs |-> interval]

\* The effects of the commit of a new images array and interval: the
\* cleanup of the transition loop effect clears the old timer, the card
\* initializer gives every card an image of the new pool, and the
\* transition loop effect clears timerRef.current once more and starts a
\* timer whose callback closes over the new pool.  Both effects return
\* early on an empty pool.  A timer that neither the cleanup nor line 276
\* has cleared stays live when timerRef.current takes the new handle.
RunEffects(imgs, interval) ==
    /\ IF InitEffectRuns(imgs)
       THEN /\ \E initial \in [Slots -> { At(imgs, i) : i \in InitIndices(imgs) }] :
                 cards' = [s \in Slots |-> InitCard(initial[s])]
            /\ initialized' = TRUE
       ELSE UNCHANGED << cards, initialized >>
    /\ timerRef' = IF TimerEffectRuns(imgs)
                   THEN StartTimer(imgs, interval)
                   ELSE Cleared(timerRef)
    /\ orphans' = IF TimerEffectRuns(imgs)
                  THEN orphans \cup Leftover(Cleared(Cleared(timerRef)))
                  ELSE orphans

\* ------------------------------------------------------------- actions

\* History only: how a load changes the pool.
PoolChange(old, new) ==
    IF new = <<>> THEN "emptied"
    ELSE IF old = <<>> THEN "fresh"
    ELSE IF old # new THEN "replaced"
    ELSE "same"

Apply(n) ==
    /\ pc = "idle"
    /\ images' = n.images
    /\ intervalMs' = n.intervalMs
    /\ fadeMs' = n.fadeMs
    /\ RunEffects(n.images, n.intervalMs)
    /\ last' = [op |-> "load", target |-> 0, branch |-> "none",
                change |-> PoolChange(images, n.images)]
    /\ UNCHANGED << pc, loopTarget, mounted, fxPending, props >>

\* fetch(configSource) resolved and decoded: the then-handler and the
\* effects of its commit.
LoadResolved ==
    \E data \in (IF last.op = "none" THEN Documents ELSE ReloadDocuments) :
        /\ Apply(Normalize(data, defaultIntervalMs, defaultFadeMs))
        /\ UNCHANGED << doc, loads >>

\* fetch(configSource) failed or its body is no JSON: the catch-handler and
\* the effects of its commit.
LoadFailed ==
    /\ Apply(OnFetchError(defaultIntervalMs, defaultFadeMs))
    /\ UNCHANGED << doc, loads >>

\* The end of the setCards updater of a tick.
Finish(target, newImg, branch) ==
    /\ cards' = ApplyTick(cards, target, newImg)
    /\ pc' = "idle"
    /\ loopTarget' = 0
    /\ last' = [op |-> "tick", target |-> target, branch |-> branch,
                change |-> "none"]
    /\ UNCHANGED << images, intervalMs, fadeMs, timerRef, initialized >>
    /\ UNCHANGED env

\* The interval callback: its updater up to the write, or up to the while
\* loop of pickRandomExcluding.
TickOn(target) ==
    /\ timerRef.live
    /\ mounted
    /\ pc = "idle"
    /\ LET list == timerRef.images
           visibleSet == VisibleSet(cards)
           currentVisible == VisibleOf(cards[target])
           cand == Candidates(list, visibleSet)
       IN  IF Len(list) # 0 /\ cand # {}
           THEN \E newImg \in cand : Finish(target, newImg, "notIn")
           ELSE IF Len(list) = 0
           THEN Finish(target, currentVisible, "keep")
           ELSE IF Len(list) = 1
           THEN Finish(target, OrCurrent(list[1], currentVisible), "single")
           ELSE /\ pc' = "loop"
                /\ loopTarget' = target
                /\ UNCHANGED << images, intervalMs, fadeMs, cards, timerRef,
                                initialized, last >>
                /\ UNCHANGED env

\* target = Math.floor(Math.random() * 3)
Tick == \E target \in Slots : TickOn(target)

\* One pass of the while loop of pickRandomExcluding: draw an index, and
\* leave the loop when the entry differs from the excluded image.
LoopIter ==
    /\ pc = "loop"
    /\ \E idx \in 1 .. Len(timerRef.images) :
         LET candidate == timerRef.images[idx]
             currentVisible == VisibleOf(cards[loopTarget])
         IN  IF LoopContinues(candidate, currentVisible)
             THEN UNCHANGED vars
             ELSE Finish(loopTarget, OrCurrent(candidate, currentVisible),
                         "excluding")

Next == LoadResolved \/ LoadFailed \/ Tick \/ LoopIter

Spec == Init /\ [][Next]_vars

\* ------------------------------------------------------------- lifecycle
\*
\* LifeSpec splits a load in two steps, as React runs it: the commit of the
\* handler's setState calls, and later the effects (useEffect) of that
\* commit.  Effects run after the browser has painted, so the old timer,
\* whose callback closed over the old pool, can fire in between.  React runs
\* the pending effects before it renders another update, hence the guards
\* ~fxPending.  Unmounting is split alike: the component is removed, and
\* later the cleanup of the transition loop effect runs.

\* The commit of a handler's setImages, setIntervalMs and setFadeMs.
Commit(n, op) ==
    /\ mounted
    /\ ~fxPending
    /\ pc = "idle"
    /\ images' = n.images
    /\ intervalMs' = n.intervalMs
    /\ fadeMs' = n.fadeMs
    /\ fxPending' = TRUE
    /\ last' = [op |-> op, target |-> 0, branch |-> "none",
                change |-> PoolChange(images, n.images)]
    /\ UNCHANGED << cards, timerRef, pc, loopTarget, initialized, mounted,
                    props, doc, orphans, loads >>

\* The then-handler of fetch(configSource), committed.
ThenCommitted ==
    \E data \in ReloadDocuments :
        Commit(Normalize(data, defaultIntervalMs, defaultFadeMs), "load")

\* The catch-handler of fetch(configSource), committed.
CatchCommitted ==
    Commit(OnFetchError(defaultIntervalMs, defaultFadeMs), "failed")

\* The effects of the last commit: cleanup of the transition loop effect,
\* card initializer, transition loop effect.
FlushEffects ==
    /\ mounted
    /\ fxPending
    /\ pc = "idle"
    /\ RunEffects(images, intervalMs)
    /\ fxPending' = FALSE
    /\ last' = [last EXCEPT !.target = 0, !.branch = "effects"]
    /\ UNCHANGED << images, intervalMs, fadeMs, pc, loopTarget, mounted,
                    props, doc, loads >>

\* The component is removed; the cleanups of its effects are pending.
Unmount ==
    /\ mounted
    /\ ~fxPending
    /\ pc = "idle"
    /\ mounted' = FALSE
    /\ fxPending' = TRUE
    /\ last' = [op |-> "unmount", target |-> 0, branch |-> "none",
                change |-> "none"]
    /\ UNCHANGED << images, intervalMs, fadeMs, cards, timerRef, pc,
                    loopTarget, initialized, props, doc, orphans, loads >>

\* The cleanup of the transition loop effect, run for the removal.
FlushCleanup ==
    /\ ~mounted
    /\ fxPending
    /\ timerRef' = Cleared(timerRef)
    /\ fxPending' = FALSE
    /\ last' = [last EXCEPT !.branch = "effects"]
    /\ UNCHANGED << images, intervalMs, fadeMs, cards, pc, loopTarget,
                    initialized, mounted, props, doc, orphans, loads >>

\* The interval callback after the removal: React drops the setCards of a
\* component that is not mounted.
TickIgnored ==
    /\ timerRef.live
    /\ ~mounted
    /\ last' = [op |-> "tick", target |-> 0, branch |-> "ignored",
                change |-> "none"]
    /\ UNCHANGED << images, intervalMs, fadeMs, cards, timerRef, pc,
                    loopTarget, initialized, mounted, fxPending, props, doc,
                    orphans, loads >>

LifeNext ==
    \/ ThenCommitted
    \/ CatchCommitted
    \/ FlushEffects
    \/ Unmount
    \/ FlushCleanup
    \/ Tick
    \/ LoopIter
    \/ TickIgnored

LifeSpec == Init /\ [][LifeNext]_vars

\* --------------------------------------------------------- normalization
\*
\* NormSpec applies the loader to a wide range of decoded configurations and
\* to two pairs of default props; the timer does not fire.  Every load is a
\* step of Apply, and doc records what was decoded.

\* Values a timing key can hold.
TimingValues ==
    { Absent, JNull, Num(0), Num(-1), Num(7000), Str("abc"), Str("7000"),
      Str("") }

\* Values the images key can hold.
ImagesValues == { Arr(<<>>), Arr(<<1>>), Absent, JNull, Str("a.png") }

\* Keyed configurations: every pair of values under the two keys of one
\* timing, with the other timing absent or valid.
NormKeyedDocs ==
    { KeyedDoc(imgs, u, c, f, Absent) :
        imgs \in ImagesValues, u \in TimingValues, c \in TimingValues,
        f \in { Absent, Num(4000) } }
    \cup
    { KeyedDoc(imgs, i, Absent, u, c) :
        imgs \in ImagesValues, u \in TimingValues, c \in TimingValues,
        i \in { Absent, Num(7000) } }

\* Legacy arrays, in the order they were written.
NormArrayDocs ==
    { ArrayDoc(p) : p \in { <<>>, <<1>>, <<1, 2>>, <<2, 1>>, <<1, 1>> } }

\* The decoded configurations of the first load.
NormDocuments == NormKeyedDocs \cup NormArrayDocs \cup { OtherDoc }

\* The decoded configurations of a later load.
NormReloads ==
    NormArrayDocs \cup { OtherDoc }
    \cup { KeyedDoc(Arr(<<1>>), t[1], Absent, t[2], Absent) : t \in TimingPairs }

\* The default props a caller can give.
PropsChoices ==
    { DefaultProps, [defaultIntervalMs |-> 1000, defaultFadeMs |-> 500] }

NormInit ==
    /\ props \in PropsChoices
    /\ images = <<>>
    /\ intervalMs = props.defaultIntervalMs
    /\ fadeMs = props.defaultFadeMs
    /\ cards = [s \in Slots |-> [a |-> Null, b |-> Null, showA |-> TRUE]]
    /\ timerRef = NoTimer
    /\ pc = "idle"
    /\ loopTarget = 0
    /\ initialized = FALSE
    /\ last = NoOp
    /\ mounted = TRUE
    /\ fxPending = FALSE
    /\ doc = NoDoc
    /\ orphans = {}
    /\ loads = NoLoads

\* fetch(configSource) resolved and decoded, under the props of the caller.
NormLoad ==
    \E data \in (IF last.op = "none" THEN NormDocuments ELSE NormReloads) :
        /\ Apply(Normalize(data, props.defaultIntervalMs, props.defaultFadeMs))
        /\ doc' = [cfg |-> data,
                   was |-> [intervalMs |-> intervalMs, fadeMs |-> fadeMs]]
        /\ UNCHANGED loads

NormNext == NormLoad

NormSpec == NormInit /\ [][NormNext]_vars

\* -------------------------------------------------------------- rotation
\*
\* RotateSpec: one configuration is loaded and stays applied, and the timer
\* fires for ever.  Math.random picks every card with probability 1/3 at
\* every tick, so every card is targeted again and again: weak fairness of
\* the tick on every card.

\* The one load of RotateSpec.
LoadOnce ==
    /\ last.op = "none"
    /\ LoadResolved

RotateNext == LoadOnce \/ Tick \/ LoopIter

RotateSpec ==
    /\ Init
    /\ [][RotateNext]_vars
    /\ \A s \in Slots : WF_vars(TickOn(s))

\* --------------------------------------------------------------- fetches
\*
\* FetchSpec follows every fetch of the config loader effect from the run of
\* the effect that issues it to its then- or catch-handler.  A change of
\* configSource or of a default prop runs the cleanup of the last run, which
\* sets its isMounted to false, and the body, which issues a fetch with an
\* isMounted of its own.  The handlers close over the flag and the default
\* props of their run.  A completion and the effects of its commit are one
\* step, as in Spec; the timer does not fire.

\* let isMounted = true; fetch(configSource)
NewFetch(seq, p) == [seq |-> seq, isMounted |-> TRUE, props |-> p]

\* isMounted = false, in the cleanup of every earlier run.
Superseded(fs) == { [f EXCEPT !.isMounted = FALSE] : f \in fs }

FetchInit ==
    /\ images = <<>>
    /\ intervalMs = defaultIntervalMs
    /\ fadeMs = defaultFadeMs
    /\ cards = [s \in Slots |-> [a |-> Null, b |-> Null, showA |-> TRUE]]
    /\ timerRef = NoTimer
    /\ pc = "idle"
    /\ loopTarget = 0
    /\ initialized = FALSE
    /\ last = NoOp
    /\ mounted = TRUE
    /\ fxPending = FALSE
    /\ props = DefaultProps
    /\ doc = NoDoc
    /\ orphans = {}
    /\ loads = [NoLoads EXCEPT !.inflight = { NewFetch(1, DefaultProps) },
                               !.requested = 1]

\* A handler of fetch f has run: f is no longer in flight.
Completed(f, failed, wrote) ==
    loads' = [loads EXCEPT
                !.inflight = loads.inflight \ {f},
                !.writer = IF wrote THEN f.seq ELSE loads.writer,
                !.done = [seq |-> f.seq, current |-> f.isMounted,
                          failed |-> failed]]

\* A handler ran without an effect on the state.
NothingSet ==
    UNCHANGED << images, intervalMs, fadeMs, cards, timerRef, pc, loopTarget,
                 initialized, last, mounted, fxPending, props, doc, orphans >>

\* configSource or a default prop changes: the loader effect runs again.
Request ==
    /\ mounted
    /\ loads.requested < MaxLoads
    /\ props' \in PropsChoices
    /\ loads' = [loads EXCEPT
                   !.inflight = Superseded(loads.inflight)
                                  \cup { NewFetch(loads.requested + 1, props') },
                   !.requested = loads.requested + 1]
    /\ UNCHANGED << images, intervalMs, fadeMs, cards, timerRef, pc, loopTarget,
                    initialized, last, mounted, fxPending, doc, orphans >>

\* if (!isMounted) return;
ThenGuard(f) == f.isMounted

\* The catch-handler checks nothing.
CatchGuard(f) == TRUE

\* The then-handler of fetch f.  React drops the setState calls of a
\* component that is not mounted.
FetchResolved ==
    \E f \in loads.inflight : \E data \in ReloadDocuments :
        IF ThenGuard(f) /\ mounted
        THEN /\ Apply(Normalize(data, f.props.defaultIntervalMs,
                                f.props.defaultFadeMs))
             /\ Completed(f, FALSE, TRUE)
             /\ UNCHANGED doc
        ELSE /\ Completed(f, FALSE, FALSE)
             /\ NothingSet

\* The catch-handler of fetch f.
FetchFailed ==
    \E f \in loads.inflight :
        IF CatchGuard(f) /\ mounted
        THEN /\ Apply(OnFetchError(f.props.defaultIntervalMs,
                                   f.props.defaultFadeMs))
             /\ Completed(f, TRUE, TRUE)
             /\ UNCHANGED doc
        ELSE /\ Completed(f, TRUE, FALSE)
             /\ NothingSet

\* The component is removed: the cleanups of the loader effect and of the
\* transition loop effect run.
FetchUnmount ==
    /\ mounted
    /\ mounted' = FALSE
    /\ timerRef' = Cleared(timerRef)
    /\ loads' = [loads EXCEPT !.inflight = Superseded(loads.inflight)]
    /\ last' = [op |-> "unmount", target |-> 0, branch |-> "none",
                change |-> "none"]
    /\ UNCHANGED << images, intervalMs, fadeMs, cards, pc, loopTarget,
                    initialized, fxPending, props, doc, orphans >>

FetchNext == Request \/ FetchResolved \/ FetchFailed \/ FetchUnmount

FetchSpec == FetchInit /\ [][FetchNext]_vars

\* ---------------------------------------------------------------- claims

\* The images shown, read off the cards.
Shown(cs) ==
    { x \in { IF cs[s].showA THEN cs[s].a ELSE cs[s].b : s \in Slots } : x # Null }

ShownBy(c) == IF c.showA THEN c.a ELSE c.b

PairwiseDistinct(cs) ==
    \A s, u \in Slots : s # u => ShownBy(cs[s]) # ShownBy(cs[u])

\* The pool the interval callback closed over.
TickPool == { timerRef.images[i] : i \in 1 .. Len(timerRef.images) }

\* This step completes a tick on card t.
TickStep(t) == last'.op = "tick" /\ last'.target = t /\ cards' # cards

\* The images shown before the last tick: its target showed what is now its
\* hidden layer.
ShownBefore(s) ==
    IF s = last.target
    THEN (IF cards[s].showA THEN cards[s].b ELSE cards[s].a)
    ELSE ShownBy(cards[s])

\* C1: a tick changes the card it targets and leaves the two other cards
\* (a, b and showA) as they were.
C1_OtherCardsUnchanged ==
    [][\A t \in Slots :
         TickStep(t) =>
            /\ cards'[t] # cards[t]
            /\ \A s \in Slots \ {t} : cards'[s] = cards[s]]_vars

C1_Witness ==
    /\ last.op = "tick"
    /\ last.target = 1
    /\ ~cards[0].showA
    /\ cards[2].showA
    /\ cards[0].a # cards[0].b

\* C2: in the target card the new image goes to the layer that was hidden,
\* the layer that was shown keeps its image, and showA flips, on every tick.
C2_HiddenLayerWrittenThenFlipped ==
    [][\A t \in Slots :
         TickStep(t) =>
            LET c == cards[t]
                n == cards'[t]
            IN  /\ n.showA = ~c.showA
                /\ c.showA => n.a = c.a
                /\ ~c.showA => n.b = c.b
                /\ ShownBy(n) \in TickPool \cup {ShownBy(c)}]_vars

C2_Witness ==
    /\ last.op = "tick"
    /\ cards[last.target].showA
    /\ cards[last.target].a # cards[last.target].b

\* C3: with at least 4 distinct images in the pool, a tick on three cards
\* that show pairwise distinct images leaves them pairwise distinct.
C3_NoDuplicateKept ==
    [][\A t \in Slots :
         (TickStep(t) /\ Cardinality(TickPool) >= 4 /\ PairwiseDistinct(cards))
            => PairwiseDistinct(cards')]_vars

C3_Witness ==
    /\ last.op = "tick"
    /\ Cardinality(TickPool) >= 4
    /\ \A s, u \in Slots : s # u => ShownBefore(s) # ShownBefore(u)
    /\ PairwiseDistinct(cards)

\* C4: when the pool has more distinct images than the cards show, a tick
\* takes a pool entry that no card showed before it, by pickRandomNotIn:
\* the fallbacks are not used and the while loop is not entered.
C4_UnseenImageChosen ==
    [][/\ \A t \in Slots :
            (TickStep(t) /\ Cardinality(TickPool) > Cardinality(Shown(cards)))
               => /\ ShownBy(cards'[t]) \in TickPool \ Shown(cards)
                  /\ last'.branch = "notIn"
       /\ (pc = "idle" /\ pc' = "loop")
            => ~(Cardinality(TickPool) > Cardinality(Shown(cards)))]_vars

C4_Witness ==
    /\ last.op = "tick"
    /\ last.branch = "notIn"
    /\ Cardinality({ ShownBefore(s) : s \in Slots }) < NumCards
    /\ ShownBy(cards[last.target]) \notin { ShownBefore(s) : s \in Slots }

\* C5: when every pool entry is shown by some card and the pool has at
\* least two distinct images, a tick takes a pool entry other than the
\* image its target showed.
C5_FallbackAvoidsCurrent ==
    [][\A t \in Slots :
         (TickStep(t) /\ TickPool \subseteq Shown(cards)
                      /\ Cardinality(TickPool) >= 2)
            => ShownBy(cards'[t]) \in TickPool \ {ShownBy(cards[t])}]_vars

C5_Witness ==
    /\ last.op = "tick"
    /\ last.branch = "excluding"
    /\ TickPool \subseteq { ShownBefore(s) : s \in Slots }
    /\ ShownBy(cards[last.target]) # ShownBefore(last.target)

\* C6: with a pool of two or more entries that all hold one value, a tick
\* ends: it is never inside the while loop of pickRandomExcluding, which
\* no draw from such a pool can leave.
C6_DuplicatePoolTickEnds ==
    (Len(timerRef.images) >= 2 /\ Cardinality(TickPool) = 1) => pc = "idle"

\* C7: with a pool of exactly one image, once the cards are initialized
\* every card shows that image, whatever ticks have run.
C7_SingleImageStable ==
    (Len(images) = 1 /\ initialized)
        => \A s \in Slots : ShownBy(cards[s]) = images[1]

C7_Witness ==
    /\ Len(images) = 1
    /\ last.op = "tick"
    /\ last.branch = "single"
    /\ \E s \in Slots : ~cards[s].showA

\* C8: two cards show the same image only if the pool has fewer than 3
\* distinct images.
C8_DuplicateOnlyBelowThree ==
    (\E s, u \in Slots :
        s # u /\ ShownBy(cards[s]) # Null /\ ShownBy(cards[s]) = ShownBy(cards[u]))
        => Cardinality({ images[i] : i \in 1 .. Len(images) }) < 3

\* C9: right after a load that leaves a non-empty pool, before any tick,
\* every card holds one image of the new pool in both layers and shows
\* layer a, and the timer's callback reads the new pool.
C9_ReinitializedOnLoad ==
    /\ (last.op = "load" /\ images # <<>>)
          => \A s \in Slots :
                /\ cards[s].a = cards[s].b
                /\ cards[s].a \in { images[i] : i \in 1 .. Len(images) }
                /\ cards[s].showA
    /\ timerRef.live => (timerRef.images = images /\ images # <<>>)

C9_Witness ==
    /\ last.op = "load"
    /\ last.change = "replaced"
    /\ Len(images) = 2
    /\ images[1] # images[2]
    /\ cards[0].a # cards[1].a

\* C10: whenever the pool is not empty and the cards have been initialized,
\* the shown layer of every card holds an image.
C10_ShownLayerHoldsImage ==
    (images # <<>> /\ initialized)
        => \A s \in Slots : ShownBy(cards[s]) # Null

C10_Witness ==
    /\ images # <<>>
    /\ initialized
    /\ last.op = "tick"
    /\ intervalMs # defaultIntervalMs
    /\ \A s \in Slots : ~cards[s].showA

\* C11: while the pool is empty no step changes a card: the initializer does
\* not run, no timer is started, and a tick leaves every card as it was.
C11_EmptyPoolFreezesSlots ==
    [][(images = <<>> /\ images' = <<>>) => cards' = cards]_vars

\* C12: once the component is removed no step changes a card, whether or
\* not the timer fires before the cleanup has run, and once the cleanup has
\* run no timer is live, so no callback runs any more.
C12_NoTickAfterTeardown ==
    [][/\ ~mounted => cards' = cards
       /\ (~mounted /\ ~fxPending) => ~timerRef.live]_vars

C12_Witness ==
    /\ ~mounted
    /\ ~fxPending
    /\ ~timerRef.live
    /\ last.op = "tick"
    /\ initialized
    /\ \E s \in Slots : ~cards[s].showA

\* C13: every tick that changes a card reads the pool that is applied at
\* that moment, and the image its target then shows is an entry of that
\* pool: no callback of a timer started for a replaced pool writes to a card.
C13_TicksReadCurrentPool ==
    [][\A t \in Slots :
         TickStep(t) =>
            /\ timerRef.images = images
            /\ ShownBy(cards'[t]) \in Elems(images)]_vars

\* C14: once the effects of a commit have run, a timer is live exactly when
\* the component is mounted and the pool is not empty, and its period is
\* the applied intervalMs: every change of the interval has replaced the
\* timer, an empty pool and the teardown have stopped it.
C14_TimerFollowsInterval ==
    ~fxPending =>
        /\ timerRef.live <=> (mounted /\ images # <<>>)
        /\ timerRef.live => timerRef.intervalMs = intervalMs

C14_Witness ==
    /\ ~fxPending
    /\ timerRef.live
    /\ timerRef.intervalMs = 7000
    /\ intervalMs = 7000
    /\ last.op = "load"
    /\ last.change = "same"
    /\ last.branch = "effects"

PoolOf(x) == IF x.t = "array" THEN x.items ELSE <<>>

\* The value that decides a timing: the upper-case key unless it is absent
\* or null.
Given(upper, camel) ==
    IF upper.t \in {"undefined", "null"} THEN camel ELSE upper

\* The number a timing value stands for, if it stands for one: a number
\* itself, the string "7000" is 7000; absent, null, "" and "abc" give no
\* positive number.
Usable(x) ==
    \/ x.t = "number" /\ x.v > 0
    \/ x.t = "string" /\ x.s = "7000"

NumberOf(x) == IF x.t = "number" THEN x.v ELSE 7000

Expected(x, default) == IF Usable(x) THEN NumberOf(x) ELSE default

\* C16: after the load of any decoded configuration the pool is a sequence
\* and intervalMs and fadeMs are positive; a configuration that is neither
\* an array nor an object leaves the empty pool and both defaults.
C16_NormalizationTotal ==
    doc.cfg.kind # "none" =>
        /\ DOMAIN images = 1 .. Len(images)
        /\ intervalMs > 0
        /\ fadeMs > 0
        /\ doc.cfg.kind \notin {"array", "object"} =>
              /\ images = <<>>
              /\ intervalMs = props.defaultIntervalMs
              /\ fadeMs = props.defaultFadeMs

C16_Witness ==
    /\ doc.cfg.kind = "other"
    /\ doc.was.intervalMs = 7000
    /\ props.defaultIntervalMs = 1000
    /\ intervalMs = 1000
    /\ images = <<>>

\* C17: after the load of a keyed configuration the pool is its images
\* array, or empty when images is no array, and each of intervalMs and
\* fadeMs is the number its keys hold when that is finite and positive, and
\* else the default prop, whatever the other timing holds.
C17_KeyedConfiguration ==
    doc.cfg.kind = "object" =>
        /\ images = PoolOf(doc.cfg.images)
        /\ intervalMs = Expected(Given(doc.cfg.INTERVAL_MS, doc.cfg.intervalMs),
                                 props.defaultIntervalMs)
        /\ fadeMs = Expected(Given(doc.cfg.FADE_MS, doc.cfg.fadeMs),
                             props.defaultFadeMs)

C17_Witness ==
    /\ doc.cfg.kind = "object"
    /\ doc.cfg.INTERVAL_MS = Num(-1)
    /\ doc.cfg.FADE_MS = Num(4000)
    /\ doc.cfg.images = Str("a.png")
    /\ props.defaultIntervalMs = 1000
    /\ intervalMs = 1000
    /\ fadeMs = 4000
    /\ images = <<>>

\* C18: after the load of a legacy array the pool is that array, entry by
\* entry, and intervalMs and fadeMs are the default props, whatever timing
\* was applied before.
C18_LegacyArray ==
    doc.cfg.kind = "array" =>
        /\ images = doc.cfg.items
        /\ intervalMs = props.defaultIntervalMs
        /\ fadeMs = props.defaultFadeMs

C18_Witness ==
    /\ doc.cfg.kind = "array"
    /\ doc.cfg.items = <<2, 1>>
    /\ images = <<2, 1>>
    /\ doc.was.intervalMs = 7000
    /\ doc.was.fadeMs = 4000
    /\ intervalMs = 1000
    /\ fadeMs = 500

\* C19: a failed load leaves the empty pool and the default timing; once
\* its effects have run no timer is live; and neither the failure nor any
\* step that follows it changes the image a card shows.
C19_FailureKeepsSlots ==
    [][/\ (last'.op = "failed" /\ ~fxPending') =>
            /\ images' = <<>>
            /\ intervalMs' = defaultIntervalMs
            /\ fadeMs' = defaultFadeMs
            /\ ~timerRef'.live
       /\ (last.op = "failed" \/ last'.op = "failed") =>
            \A s \in Slots : ShownBy(cards'[s]) = ShownBy(cards[s])]_vars

\* This step is a load that delivers the pool and the timing that were
\* applied already.
SameReload ==
    /\ last'.op = "load"
    /\ last'.change = "same"
    /\ images' = images
    /\ intervalMs' = intervalMs
    /\ fadeMs' = fadeMs

C21_SupersededLoadIsIgnored ==
    [][/\ (loads'.done # loads.done /\ ~loads'.done.current) =>
            UNCHANGED << images, intervalMs, fadeMs >>
       /\ (mounted' /\ loads'.inflight = {}) =>
            loads'.writer = loads'.requested]_vars

\* C22: no live timer is ever left without timerRef.current referring to
\* it, so at most one timer is live; and once the effects of a commit or of
\* the removal have run, a timer is live exactly when the component is
\* mounted and the pool is not empty.
C22_AtMostOneTimer ==
    /\ orphans = {}
    /\ ~fxPending => (timerRef.live <=> (mounted /\ images # <<>>))

C22_Witness ==
    /\ ~fxPending
    /\ mounted
    /\ timerRef.live
    /\ last.op = "load"
    /\ last.change = "replaced"
    /\ last.branch = "effects"
    /\ timerRef.images = images
    /\ orphans = {}

\* C23: when the pool holds at least two distinct images, the card a tick
\* targets shows another image after the tick than before it, whether the
\* image was found by pickRandomNotIn or by pickRandomExcluding.
C23_TickChangesVisibleImage ==
    [][\A t \in Slots :
         (TickStep(t) /\ Cardinality(Elems(images)) >= 2)
            => /\ ShownBy(cards'[t]) # ShownBy(cards[t])
               /\ last'.branch \in {"notIn", "excluding"}]_vars

C23_Witness ==
    /\ last.op = "tick"
    /\ last.branch = "excluding"
    /\ Len(images) = 3
    /\ Cardinality(Elems(images)) = 2
    /\ ShownBy(cards[last.target]) # ShownBefore(last.target)
    /\ \E s \in Slots : s # last.target /\ ~cards[s].showA

\* C24: with at least 4 distinct images in the pool, no tick lowers the
\* number of distinct images the cards show, whatever the initializer drew;
\* and with every card targeted again and again, the cards come to show
\* three pairwise distinct images and do so for ever after.
C24_DistinctCountGrows ==
    /\ [][\A t \in Slots :
            (TickStep(t) /\ Cardinality(TickPool) >= 4)
               => Cardinality(Shown(cards')) >= Cardinality(Shown(cards))]_vars
    /\ (Cardinality(Elems(images)) >= 4) ~> [](PairwiseDistinct(cards))

C24_Witness ==
    /\ last.op = "tick"
    /\ Cardinality(TickPool) >= 4
    /\ PairwiseDistinct(cards)
    /\ Cardinality({ ShownBefore(s) : s \in Slots }) = 2
    /\ \E s \in Slots : cards[s].showA /\ cards[s].a = cards[s].b

\* The images in the layers of the cards.
Layers(cs) == UNION { { cs[s].a, cs[s].b } : s \in Slots }

\* The cards have been initialized for the pool in images: the card
\* initializer has run since images was last set.
InitializedForPool == initialized /\ ~fxPending

\* C25: whenever the pool is not empty and the cards have been initialized
\* for it, both layers of every card hold images of the pool; from such a
\* state every step that changes a card (a tick) leaves only images of the
\* pool in the layers; and the initializer run for a new pool leaves no
\* image in a layer that is not in the new pool, whatever the cards held of
\* the pool it replaces.
C25_LayersHoldPoolImages ==
    /\ []((images # <<>> /\ InitializedForPool)
            => Layers(cards) \subseteq Elems(images))
    /\ [][/\ (images # <<>> /\ InitializedForPool /\ cards' # cards)
                => Layers(cards') \subseteq Elems(images)
          /\ (fxPending /\ ~fxPending' /\ mounted /\ images # <<>>)
                => Layers(cards') \cap (Layers(cards) \ Elems(images)) = {}]_vars

C25_Witness ==
    /\ last.op = "load"
    /\ last.change = "replaced"
    /\ last.branch = "effects"
    /\ InitializedForPool
    /\ Len(images) = 2
    /\ images[1] # images[2]
    /\ Layers(cards) = Elems(images)
    /\ cards[0].a # cards[1].a

\* The key holds a value other than null.
Present(x) == x.t \notin {"undefined", "null"}

\* The timing the two keys of a keyed configuration give: the upper-case
\* key decides whenever it is present, with a usable value or not; the
\* camel-case key decides only when the upper-case key is absent or null.
Decided(upper, camel, default) ==
    IF Present(upper) THEN Expected(upper, default)
    ELSE Expected(camel, default)

\* C26: after the load of a keyed configuration, a timing whose upper-case
\* key is present is decided by that key alone: its value when that is a
\* positive number, and else the default prop, whatever the camel-case key
\* holds; the camel-case key decides only when the upper-case key is absent
\* or null.
C26_UpperCaseKeyDecides ==
    doc.cfg.kind = "object" =>
        /\ intervalMs =
              Decided(doc.cfg.INTERVAL_MS, doc.cfg.intervalMs, props.defaultIntervalMs)
        /\ fadeMs = Decided(doc.cfg.FADE_MS, doc.cfg.fadeMs, props.defaultFadeMs)
        /\ (Present(doc.cfg.INTERVAL_MS) /\ ~Usable(doc.cfg.INTERVAL_MS))
              => intervalMs = props.defaultIntervalMs
        /\ (Present(doc.cfg.FADE_MS) /\ ~Usable(doc.cfg.FADE_MS))
              => fadeMs = props.defaultFadeMs

C26_Witness ==
    /\ doc.cfg.kind = "object"
    /\ doc.cfg.INTERVAL_MS = Num(0)
    /\ doc.cfg.intervalMs = Num(7000)
    /\ doc.cfg.FADE_MS = Num(4000)
    /\ props.defaultIntervalMs = 1000
    /\ intervalMs = 1000
    /\ fadeMs = 4000

====
